---- MODULE Spec2Model ----
(***************************************************************************)
(* Model of rs-downloader (src/src/main.rs): a Coordinator (main) spawns   *)
(* one Reporter task (update_progress_and_speed) and one Downloader task   *)
(* (download_file) per URL on a multi-threaded tokio runtime.  All tasks   *)
(* share one DownloadStats behind a tokio Mutex.                           *)
(***************************************************************************)
EXTENDS Integers, Sequences, FiniteSets, TLC

(* ------------------------------ bounds -------------------------------- *)
\* largest number of URL arguments on the command line
MaxJobs == 2
\* largest number of body bytes one response stream delivers
MaxBody == 2
\* largest number of bytes in one chunk of a response stream
MaxChunk == 2
\* width of the counters of DownloadStats, scaled down from the 64 bits of u64
CounterBits == 5
\* number of Reporter sleeps after which elapsed time is no longer told apart
MaxTicks == 1

(* ----------------------------- constants ------------------------------ *)
\* Duration::from_millis(500)
SleepMillis == 500

(* --------------------------- input domains ---------------------------- *)
\* URLs as sequences of characters: two that share their last segment, one
\* with another last segment, one ending in '/'
Urls ==
    { <<"h", "/", "a">>, <<"g", "/", "a">>, <<"h", "/", "b">>, <<"h", "/">> }

RECURSIVE SeqsUpTo(_, _)
SeqsUpTo(S, n) ==
    IF n = 0 THEN { <<>> }
    ELSE LET shorter == SeqsUpTo(S, n - 1)
         IN  shorter \cup { Append(s, x) : s \in { t \in shorter : Len(t) = n - 1 }, x \in S }

ArgLists == SeqsUpTo(Urls, MaxJobs)

\* counters are u64: values 0 .. 2^64 - 1 (here 2^CounterBits - 1)
Modulus == 2 ^ CounterBits

\* a content length so large that two of them exceed the counter's range
HugeLen == 2 ^ (CounterBits - 1)

\* response.content_length(): None, or Some(n)
None == -1
ContentLengths == { None, 1, HugeLen }

VARIABLES
    args,            \* env::args() without the program name
    overflowChecks,  \* build profile: TRUE panics on integer overflow, FALSE wraps
    mpc,             \* position of main
    idx,             \* loop index of main's spawn loop and of its join loop
    result,          \* what main returned: "none", "ok", "err", "usage"
    aborted,         \* progress_handle.abort() has been called
    rpc,             \* position of the Reporter task
    out,             \* what the terminal shows, in order (a status render
                     \* overwrites the previous status render in place)
    locked,          \* the tokio Mutex around DownloadStats is held
    total_bytes,     \* DownloadStats.total_bytes
    total_size,      \* DownloadStats.total_size
    pc,              \* position (or terminal outcome) of each Downloader task
    advertised,      \* content length of each job's response (None if absent)
    got,             \* bytes each job has received from its response stream
    pos,             \* write offset of each job's file handle
    counted,         \* bytes each job has added to total_bytes
    files,           \* the file system: file name -> content, or NoFile
    elapsed          \* milliseconds the Reporter has slept since start_time: a
                     \* lower bound of start_time.elapsed(), kept up to MaxTicks sleeps

vars == << args, overflowChecks, mpc, idx, result, aborted, rpc, out, locked,
           total_bytes, total_size, pc, advertised, got, pos, counted, files,
           elapsed >>

mainVars == << mpc, idx, result, aborted >>
statVars == << locked, total_bytes, total_size >>
jobVars  == << pc, advertised, got, pos, counted, files >>

Jobs == 1 .. Len(args)

NoFile == << -1 >>

(* ------------------------- pure functions ----------------------------- *)
\* url.split('/'): the segments between the separators; never empty
RECURSIVE Split(_)
Split(s) ==
    IF \A i \in 1 .. Len(s) : s[i] # "/" THEN << s >>
    ELSE LET i == CHOOSE k \in 1 .. Len(s) :
                      s[k] = "/" /\ \A m \in 1 .. k - 1 : s[m] # "/"
         IN  << SubSeq(s, 1, i - 1) >> \o Split(SubSeq(s, i + 1, Len(s)))

DefaultName == << "downloaded_file" >>

\* url.split('/').last().unwrap_or("downloaded_file")
FileName(url) ==
    LET segs == Split(url)
    IN  IF Len(segs) = 0 THEN DefaultName ELSE segs[Len(segs)]

file_path(j) == FileName(args[j])

\* the k-th byte of the body that job j's server sends
BodyByte(j, k) == 10 * j + k

\* bytes lo+1 .. hi of job j's body
BodyBytes(j, lo, hi) == [ k \in 1 .. (hi - lo) |-> BodyByte(j, lo + k) ]

\* a write of data at offset off into a file (a gap is filled with zero bytes)
WriteAt(content, off, data) ==
    LET n == IF Len(content) > off + Len(data) THEN Len(content) ELSE off + Len(data)
    IN  [ i \in 1 .. n |->
            IF i > off /\ i <= off + Len(data) THEN data[i - off]
            ELSE IF i <= Len(content) THEN content[i]
            ELSE 0 ]

\* lines 87-91 with the ratio inverted: total_size / total_bytes
ProgressInverted(bytes, size) ==
    IF size > 0 THEN [ num |-> size * 100, den |-> bytes ] ELSE [ num |-> 0, den |-> 1 ]

\* lines 87-91: progress as the exact ratio num / den (the code rounds it to f64)
Progress(bytes, size) ==
    IF size > 0 THEN [ num |-> bytes * 100, den |-> size ] ELSE [ num |-> 0, den |-> 1 ]

\* lines 84-85: (total_bytes as f64) / elapsed / 1_000_000.0 in MB/s, elapsed in
\* seconds (ms / 1000); an f64 division by 0.0 gives NaN for 0.0 / 0.0 and
\* infinity otherwise
Speed(bytes, ms) ==
    IF ms = 0
    THEN IF bytes = 0 THEN [ kind |-> "nan", num |-> 0, den |-> 0 ]
                      ELSE [ kind |-> "inf", num |-> bytes, den |-> 0 ]
    ELSE [ kind |-> "num", num |-> bytes, den |-> ms * 1000 ]

Terminal == { "ok", "err_net", "err_io", "panic" }
Failed   == { "err_net", "err_io", "panic" }

Exited == mpc = "exited"

(* ------------------------------- Init --------------------------------- *)
Init ==
    /\ args \in ArgLists
    /\ overflowChecks \in BOOLEAN
    /\ mpc = "start"
    /\ idx = 1
    /\ result = "none"
    /\ aborted = FALSE
    /\ rpc = "idle"
    /\ out = << >>
    /\ locked = FALSE
    /\ total_bytes = 0
    /\ total_size = 0
    /\ pc = [ j \in Jobs |-> "idle" ]
    /\ advertised = [ j \in Jobs |-> None ]
    /\ got = [ j \in Jobs |-> 0 ]
    /\ pos = [ j \in Jobs |-> 0 ]
    /\ counted = [ j \in Jobs |-> 0 ]
    /\ files = [ f \in { FileName(args[j]) : j \in Jobs } |-> NoFile ]
    /\ elapsed = 0

(* ---------------------------- Coordinator ----------------------------- *)
\* main with the usage check off by one (args.len() < 1): never taken, as
\* args[0] is the program name
MainStartNoUsageCheck ==
    /\ mpc = "start"
    /\ \/ /\ mpc' = "exited"
          /\ result' = "err"
          /\ UNCHANGED << rpc, out >>
       \/ /\ mpc' = "spawn"
          /\ out' = Append(out, "banner")
          /\ rpc' = "sleep"
          /\ UNCHANGED result
    /\ UNCHANGED << args, overflowChecks, elapsed, idx, aborted, statVars, jobVars >>

\* main, lines 113-134: the usage check, the client, the stats, the Reporter
MainStart ==
    /\ mpc = "start"
    /\ \/ /\ Len(args) < 1
          /\ mpc' = "exited"
          /\ result' = "usage"
          /\ out' = Append(out, "usage")
          /\ UNCHANGED rpc
       \/ /\ Len(args) >= 1
          /\ mpc' = "exited"
          /\ result' = "err"
          /\ UNCHANGED << rpc, out >>
       \/ /\ Len(args) >= 1
          /\ mpc' = "spawn"
          /\ out' = Append(out, "banner")
          /\ rpc' = "sleep"
          /\ UNCHANGED result
    /\ UNCHANGED << args, overflowChecks, elapsed, idx, aborted, statVars, jobVars >>

\* main, lines 138-149: one Downloader task per URL, in argument order
MainSpawn ==
    /\ mpc = "spawn"
    /\ IF idx <= Len(args)
       THEN /\ pc' = [ pc EXCEPT ![idx] = "send" ]
            /\ idx' = idx + 1
            /\ UNCHANGED mpc
       ELSE /\ mpc' = "join"
            /\ idx' = 1
            /\ UNCHANGED pc
    /\ UNCHANGED << args, overflowChecks, elapsed, result, aborted, rpc, out, statVars,
                    advertised, got, pos, counted, files >>

\* a join loop that drops each task's result: let _ = handle.await
MainJoinIgnoreErr ==
    /\ mpc = "join"
    /\ IF idx <= Len(args)
       THEN /\ pc[idx] \in { "ok", "err_net", "err_io", "panic" }
            /\ idx' = idx + 1
            /\ UNCHANGED mpc
       ELSE /\ mpc' = "abort"
            /\ UNCHANGED idx
    /\ UNCHANGED << args, overflowChecks, elapsed, result, aborted, rpc, out, statVars, jobVars >>

\* a join loop that awaits the first handle only
MainJoinFirstOnly ==
    /\ mpc = "join"
    /\ IF idx <= 1
       THEN /\ pc[idx] \in { "ok", "err_net", "err_io", "panic" }
            /\ IF pc[idx] = "ok"
               THEN /\ idx' = idx + 1
                    /\ UNCHANGED << mpc, result >>
               ELSE /\ mpc' = "exited"
                    /\ result' = "err"
                    /\ UNCHANGED idx
       ELSE /\ mpc' = "abort"
            /\ UNCHANGED << idx, result >>
    /\ UNCHANGED << args, overflowChecks, elapsed, aborted, rpc, out, statVars, jobVars >>

\* a join that returns the failure of whichever task failed, in any position
\* (as try_join_all does)
MainJoinFirstFinished ==
    /\ mpc = "join"
    /\ IF \E k \in 1 .. Len(args) : pc[k] \in { "err_net", "err_io", "panic" }
       THEN /\ idx' \in { k \in 1 .. Len(args) : pc[k] \in { "err_net", "err_io", "panic" } }
            /\ mpc' = "exited"
            /\ result' = "err"
       ELSE /\ \A k \in 1 .. Len(args) : pc[k] = "ok"
            /\ mpc' = "abort"
            /\ idx' = Len(args) + 1
            /\ UNCHANGED result
    /\ UNCHANGED << args, overflowChecks, elapsed, aborted, rpc, out, statVars, jobVars >>

\* main, lines 151-153: handle.await?? on the handles in order
MainJoin ==
    /\ mpc = "join"
    /\ IF idx <= Len(args)
       THEN /\ pc[idx] \in Terminal
            /\ IF pc[idx] = "ok"
               THEN /\ idx' = idx + 1
                    /\ UNCHANGED << mpc, result >>
               ELSE /\ mpc' = "exited"
                    /\ result' = "err"
                    /\ UNCHANGED idx
       ELSE /\ mpc' = "abort"
            /\ UNCHANGED << idx, result >>
    /\ UNCHANGED << args, overflowChecks, elapsed, aborted, rpc, out, statVars, jobVars >>

\* main without line 156: the Reporter is never aborted
MainAbortMissing ==
    /\ mpc = "abort"
    /\ mpc' = "clear"
    /\ UNCHANGED << args, overflowChecks, elapsed, idx, result, aborted, rpc, out, statVars,
                    jobVars >>

\* main, line 156: progress_handle.abort()
MainAbort ==
    /\ mpc = "abort"
    /\ aborted' = TRUE
    /\ mpc' = "clear"
    /\ UNCHANGED << args, overflowChecks, elapsed, idx, result, rpc, out, statVars, jobVars >>

\* main, lines 158-162: execute!(stdout(), MoveTo(0, 3), Clear(FromCursorDown))?
MainClear ==
    /\ mpc = "clear"
    /\ \/ /\ out' = Append(out, "clear")
          /\ mpc' = "print"
          /\ UNCHANGED result
       \/ /\ mpc' = "exited"
          /\ result' = "err"
          /\ UNCHANGED out
    /\ UNCHANGED << args, overflowChecks, elapsed, idx, aborted, rpc, statVars, jobVars >>

\* main, line 164: println!("All downloads completed.")
MainPrint ==
    /\ mpc = "print"
    /\ out' = Append(out, "completion")
    /\ mpc' = "return"
    /\ UNCHANGED << args, overflowChecks, elapsed, idx, result, aborted, rpc, statVars, jobVars >>

\* main, line 166: Ok(()); the runtime is shut down and the process exits
MainReturn ==
    /\ mpc = "return"
    /\ mpc' = "exited"
    /\ result' = "ok"
    /\ UNCHANGED << args, overflowChecks, elapsed, idx, aborted, rpc, out, statVars, jobVars >>

(* ------------------------------ Reporter ------------------------------ *)
\* a Reporter whose first tick completes at once (the sleep does not delay it)
ReporterTickNoSleep ==
    /\ mpc # "exited"
    /\ rpc = "sleep"
    /\ ~aborted
    /\ rpc' = "wake"
    /\ UNCHANGED << args, overflowChecks, elapsed, mainVars, out, statVars, jobVars >>

\* line 82: the 500 ms sleep ends and the task is polled
ReporterTick ==
    /\ ~Exited
    /\ rpc = "sleep"
    /\ ~aborted
    /\ rpc' = "wake"
    /\ elapsed' = IF elapsed + SleepMillis > MaxTicks * SleepMillis
                  THEN MaxTicks * SleepMillis
                  ELSE elapsed + SleepMillis
    /\ UNCHANGED << args, overflowChecks, mainVars, out, statVars, jobVars >>

\* line 83: stats.lock().await in the poll the timer started
ReporterTryLock ==
    /\ ~Exited
    /\ rpc = "wake"
    /\ IF locked
       THEN /\ rpc' = "lock"
            /\ UNCHANGED locked
       ELSE /\ rpc' = "render"
            /\ locked' = TRUE
    /\ UNCHANGED << args, overflowChecks, elapsed, mainVars, out, total_bytes, total_size,
                    jobVars >>

\* line 83: a suspended stats.lock().await is woken with the lock
ReporterAcquire ==
    /\ ~Exited
    /\ rpc = "lock"
    /\ ~aborted
    /\ ~locked
    /\ locked' = TRUE
    /\ rpc' = "render"
    /\ UNCHANGED << args, overflowChecks, elapsed, mainVars, out, total_bytes, total_size,
                    jobVars >>

\* the status lines replace the previous status render in place
Render(o) ==
    IF Len(o) > 0 /\ o[Len(o)] = "status" THEN o ELSE Append(o, "status")

\* a Reporter whose guard outlives the loop body: the lock is kept over the sleep
ReporterRenderKeepsLock ==
    /\ mpc # "exited"
    /\ rpc = "render"
    /\ out' = Render(out)
    /\ rpc' = "sleep"
    /\ UNCHANGED << args, overflowChecks, elapsed, mainVars, statVars, jobVars >>

\* lines 84-108: compute, render, flush; the guard is dropped at the end of the
\* loop body
ReporterRender ==
    /\ ~Exited
    /\ rpc = "render"
    /\ out' = Render(out)
    /\ locked' = FALSE
    /\ rpc' = "sleep"
    /\ UNCHANGED << args, overflowChecks, elapsed, mainVars, total_bytes, total_size, jobVars >>

\* an aborted task is dropped at a point where it is suspended (line 82 or 83)
ReporterCancel ==
    /\ ~Exited
    /\ aborted
    /\ rpc \in { "sleep", "lock" }
    /\ rpc' = "cancelled"
    /\ UNCHANGED << args, overflowChecks, elapsed, mainVars, out, statVars, jobVars >>

(* ----------------------------- Downloader ----------------------------- *)
\* a Downloader that creates its file before it sends the request
SendCreatesFileFirst(j) ==
    /\ mpc # "exited"
    /\ pc[j] = "send"
    /\ \/ /\ pc' = [ pc EXCEPT ![j] = "err_net" ]
          /\ files' = [ files EXCEPT ![FileName(args[j])] = << >> ]
          /\ UNCHANGED advertised
       \/ \E cl \in { -1, 1, 2 ^ (CounterBits - 1) } :
            /\ advertised' = [ advertised EXCEPT ![j] = cl ]
            /\ pc' = [ pc EXCEPT ![j] = "lock_size" ]
            /\ UNCHANGED files
    /\ UNCHANGED << args, overflowChecks, elapsed, mainVars, rpc, out, statVars,
                    got, pos, counted >>

\* lines 59-60: client.get(url).send().await? and response.content_length()
Send(j) ==
    /\ ~Exited
    /\ pc[j] = "send"
    /\ \/ /\ pc' = [ pc EXCEPT ![j] = "err_net" ]
          /\ UNCHANGED advertised
       \/ \E cl \in ContentLengths :
            /\ advertised' = [ advertised EXCEPT ![j] = cl ]
            /\ pc' = [ pc EXCEPT ![j] = "lock_size" ]
    /\ UNCHANGED << args, overflowChecks, elapsed, mainVars, rpc, out, statVars,
                    got, pos, counted, files >>

\* stats.lock().await (lines 63 and 73)
Lock(j, at, to) ==
    /\ ~Exited
    /\ pc[j] = at
    /\ ~locked
    /\ locked' = TRUE
    /\ pc' = [ pc EXCEPT ![j] = to ]
    /\ UNCHANGED << args, overflowChecks, elapsed, mainVars, rpc, out, total_bytes, total_size,
                    advertised, got, pos, counted, files >>

\* line 63
LockSize(j) == Lock(j, "lock_size", "add_size")

\* line 73
LockBytes(j) == Lock(j, "lock_bytes", "add_bytes")

\* line 64: stats.total_size += total_size; line 65 drops the guard
AddSize(j) ==
    /\ ~Exited
    /\ pc[j] = "add_size"
    /\ LET n   == IF advertised[j] = None THEN 0 ELSE advertised[j]
           sum == total_size + n
       IN  IF sum >= Modulus /\ overflowChecks
           THEN /\ pc' = [ pc EXCEPT ![j] = "panic" ]
                /\ UNCHANGED total_size
           ELSE /\ total_size' = sum % Modulus
                /\ pc' = [ pc EXCEPT ![j] = "create" ]
    /\ locked' = FALSE
    /\ UNCHANGED << args, overflowChecks, elapsed, mainVars, rpc, out, total_bytes,
                    advertised, got, pos, counted, files >>

\* line 67: File::create(file_path)? creates or truncates; the empty path
\* cannot be created
CreateFile(j) ==
    /\ ~Exited
    /\ pc[j] = "create"
    /\ \/ /\ file_path(j) # << >>
          /\ files' = [ files EXCEPT ![file_path(j)] = << >> ]
          /\ pc' = [ pc EXCEPT ![j] = "next" ]
       \/ /\ pc' = [ pc EXCEPT ![j] = "err_io" ]
          /\ UNCHANGED files
    /\ UNCHANGED << args, overflowChecks, elapsed, mainVars, rpc, out, statVars,
                    advertised, got, pos, counted >>

\* lines 69-70: stream.next().await: a chunk, the end of the stream, or an error
StreamNext(j) ==
    /\ ~Exited
    /\ pc[j] = "next"
    /\ \/ \E n \in 1 .. MaxChunk :
            /\ got[j] + n <= MaxBody
            /\ got' = [ got EXCEPT ![j] = got[j] + n ]
            /\ pc' = [ pc EXCEPT ![j] = "write" ]
       \/ /\ pc' = [ pc EXCEPT ![j] = "ok" ]
          /\ UNCHANGED got
       \/ /\ pc' = [ pc EXCEPT ![j] = "err_net" ]
          /\ UNCHANGED got
    /\ UNCHANGED << args, overflowChecks, elapsed, mainVars, rpc, out, statVars,
                    advertised, pos, counted, files >>

\* line 71 with the result of write_all dropped: a failed write is counted
WriteChunkIgnoreErr(j) ==
    /\ mpc # "exited"
    /\ pc[j] = "write"
    /\ \E k \in pos[j] .. got[j] :
          /\ files' = [ files EXCEPT ![FileName(args[j])] =
                          IF k = pos[j] THEN @
                          ELSE WriteAt(@, pos[j], BodyBytes(j, pos[j], k)) ]
          /\ pos' = [ pos EXCEPT ![j] = k ]
    /\ pc' = [ pc EXCEPT ![j] = "lock_bytes" ]
    /\ UNCHANGED << args, overflowChecks, elapsed, mainVars, rpc, out, statVars,
                    advertised, got, counted >>

\* line 71: file.write_all(&chunk)? at the handle's own offset; a failing
\* write_all may have written a proper prefix of the chunk
WriteChunk(j) ==
    /\ ~Exited
    /\ pc[j] = "write"
    /\ \/ /\ files' = [ files EXCEPT ![file_path(j)] =
                          WriteAt(@, pos[j], BodyBytes(j, pos[j], got[j])) ]
          /\ pos' = [ pos EXCEPT ![j] = got[j] ]
          /\ pc' = [ pc EXCEPT ![j] = "lock_bytes" ]
       \/ \E k \in pos[j] .. got[j] - 1 :
            /\ files' = [ files EXCEPT ![file_path(j)] =
                            IF k = pos[j] THEN @
                            ELSE WriteAt(@, pos[j], BodyBytes(j, pos[j], k)) ]
            /\ pos' = [ pos EXCEPT ![j] = k ]
            /\ pc' = [ pc EXCEPT ![j] = "err_io" ]
    /\ UNCHANGED << args, overflowChecks, elapsed, mainVars, rpc, out, statVars,
                    advertised, got, counted >>

\* line 74 counting chunks instead of bytes: stats.total_bytes += 1
AddBytesPerChunk(j) ==
    /\ mpc # "exited"
    /\ pc[j] = "add_bytes"
    /\ total_bytes' = (total_bytes + 1) % (2 ^ CounterBits)
    /\ counted' = [ counted EXCEPT ![j] = got[j] ]
    /\ pc' = [ pc EXCEPT ![j] = "next" ]
    /\ locked' = FALSE
    /\ UNCHANGED << args, overflowChecks, elapsed, mainVars, rpc, out, total_size,
                    advertised, got, pos, files >>

\* line 74 with a guard that outlives the loop body: the lock is kept over
\* stream.next().await
AddBytesKeepsLock(j) ==
    /\ mpc # "exited"
    /\ pc[j] = "add_bytes"
    /\ total_bytes' = (total_bytes + (got[j] - counted[j])) % (2 ^ CounterBits)
    /\ counted' = [ counted EXCEPT ![j] = got[j] ]
    /\ pc' = [ pc EXCEPT ![j] = "next" ]
    /\ UNCHANGED << args, overflowChecks, elapsed, mainVars, rpc, out, locked, total_size,
                    advertised, got, pos, files >>

\* line 74: stats.total_bytes += chunk.len() as u64; line 75 drops the guard
AddBytes(j) ==
    /\ ~Exited
    /\ pc[j] = "add_bytes"
    /\ LET sum == total_bytes + (got[j] - counted[j])
       IN  IF sum >= Modulus /\ overflowChecks
           THEN /\ pc' = [ pc EXCEPT ![j] = "panic" ]
                /\ UNCHANGED << total_bytes, counted >>
           ELSE /\ total_bytes' = sum % Modulus
                /\ counted' = [ counted EXCEPT ![j] = got[j] ]
                /\ pc' = [ pc EXCEPT ![j] = "next" ]
    /\ locked' = FALSE
    /\ UNCHANGED << args, overflowChecks, elapsed, mainVars, rpc, out, total_size,
                    advertised, got, pos, files >>

(* ------------------------------- Next --------------------------------- *)
Next ==
    \/ MainStart
    \/ MainSpawn
    \/ MainJoin
    \/ MainAbort
    \/ MainClear
    \/ MainPrint
    \/ MainReturn
    \/ ReporterTick
    \/ ReporterTryLock
    \/ ReporterAcquire
    \/ ReporterRender
    \/ ReporterCancel
    \/ \E j \in Jobs : Send(j)
    \/ \E j \in Jobs : LockSize(j)
    \/ \E j \in Jobs : AddSize(j)
    \/ \E j \in Jobs : CreateFile(j)
    \/ \E j \in Jobs : StreamNext(j)
    \/ \E j \in Jobs : WriteChunk(j)
    \/ \E j \in Jobs : LockBytes(j)
    \/ \E j \in Jobs : AddBytes(j)

Spec == Init /\ [][Next]_vars

(* ------------------------------ fairness ------------------------------ *)
\* main is a task of the runtime: it runs whenever it can
MainStep ==
    MainStart \/ MainSpawn \/ MainJoin \/ MainAbort \/ MainClear \/ MainPrint
        \/ MainReturn

\* the steps of Downloader j that wait for no other task: the server answers
\* or fails, the stream delivers its next item, the file system responds
JobStep(j) ==
    /\ j \in Jobs
    /\ \/ Send(j) \/ AddSize(j) \/ CreateFile(j) \/ StreamNext(j)
       \/ WriteChunk(j) \/ AddBytes(j)

\* the steps of Downloader j that take the lock
JobLock(j) ==
    /\ j \in Jobs
    /\ LockSize(j) \/ LockBytes(j)

\* The runtime polls every runnable task, and a task past its lock().await
\* runs to the drop of its guard (weak fairness); the tokio Mutex serves its
\* waiters first in, first out, so a Downloader waiting for a lock that is
\* released again and again gets it (strong fairness).  The Reporter's timer
\* needs no fairness.
Fairness ==
    /\ WF_vars(MainStep)
    /\ WF_vars(ReporterRender)
    /\ \A j \in 1 .. MaxJobs : WF_vars(JobStep(j)) /\ SF_vars(JobLock(j))

\* the command lines of the fair runs: no URL, one URL, ... up to MaxJobs URLs
LiveUrls == << << "h", "/", "a" >>, << "h", "/", "b" >>, << "h", "/" >>, << "g", "/", "a" >> >>

LiveArgLists ==
    { SubSeq(LiveUrls, 1, n) : n \in 0 .. (IF MaxJobs < Len(LiveUrls) THEN MaxJobs ELSE Len(LiveUrls)) }

InitLive == Init /\ args \in LiveArgLists

FairSpec == InitLive /\ [][Next]_vars /\ Fairness

(* ------------------------- derived quantities ------------------------- *)
RECURSIVE SumOver(_, _)
SumOver(f, S) ==
    IF S = { } THEN 0
    ELSE LET x == CHOOSE y \in S : TRUE
         IN  f[x] + SumOver(f, S \ { x })

\* the whole body job j has streamed so far
Body(j) == BodyBytes(j, 0, got[j])

\* the sum of the sizes of the destination files that exist
SumFileSizes ==
    LET present == { f \in DOMAIN files : files[f] # NoFile }
    IN  SumOver([ f \in present |-> Len(files[f]) ], present)

DistinctNames ==
    \A i, j \in Jobs : i # j => file_path(i) # file_path(j)

\* main has left its wait on the Downloader handles and the process has exited
WaitEnded == Exited /\ rpc # "idle"

Shown(e) == \E i \in 1 .. Len(out) : out[i] = e

(* ------------------------------- claims ------------------------------- *)
\* C1: the run ends with success only if every Downloader ended with
\* success, and a run that ends with some Downloader failed ends with failure.
C1_ExitStatus ==
    Exited =>
        /\ result = "ok" => \A j \in Jobs : pc[j] = "ok"
        /\ (\E j \in Jobs : pc[j] \in Failed) => result = "err"

\* C1 witness: a two-job run that ended in failure after the first job
\* succeeded and the second failed
C1_Witness ==
    /\ Exited
    /\ Len(args) = 2
    /\ pc[1] = "ok"
    /\ pc[2] = "err_io"
    /\ result = "err"

\* C2 (as claimed): when the process exits, every Downloader that was started
\* has reached a terminal outcome; none is stopped midway because a sibling
\* failed.
C2_NoSiblingAbandoned ==
    Exited => \A j \in Jobs : pc[j] \in Terminal \cup { "idle" }

\* C3 (as claimed): no step decreases total_bytes or total_size.
C3_CountersMonotonic ==
    [][ total_bytes' >= total_bytes /\ total_size' >= total_size ]_vars

\* C4 (as claimed): at the end of a run in which all jobs succeed,
\* total_bytes equals the sum of the sizes of the destination files, for any
\* URLs.
C4_BytesEqualFileSizes ==
    (Exited /\ result = "ok") => total_bytes = SumFileSizes

\* C4 (amended): at the end of a run in which all jobs succeed and whose
\* destination file names are pairwise distinct, total_bytes equals the sum
\* of the sizes of the destination files.
C4_BytesEqualFileSizesDistinct ==
    (Exited /\ result = "ok" /\ DistinctNames) => total_bytes = SumFileSizes

\* C4 witness: a successful run of two jobs with distinct destinations, both
\* bodies non-empty
C4_Witness ==
    /\ Exited
    /\ result = "ok"
    /\ Len(args) = 2
    /\ DistinctNames
    /\ got[1] > 0
    /\ got[2] > 0
    /\ total_bytes = got[1] + got[2]

\* C5 (as claimed): when a job ends with success, its destination file holds
\* exactly the chunks streamed for it, in order (so its length is the sum of
\* their lengths).
C5_FileIsBodyAtSuccess ==
    [][ \A j \in Jobs :
          (pc[j] # "ok" /\ pc'[j] = "ok") => files'[file_path(j)] = Body(j) ]_vars

\* C6 (as claimed): when two jobs with the same destination both succeed, the
\* final file is the complete body of one of them.
C6_CollisionKeepsOneBody ==
    \A i, j \in Jobs :
        ( /\ i # j
          /\ file_path(i) = file_path(j)
          /\ pc[i] = "ok"
          /\ pc[j] = "ok"
          /\ \A k \in Jobs : file_path(k) = file_path(i) => pc[k] \in Terminal )
        => files[file_path(i)] \in { Body(i), Body(j) }

\* the tasks inside a read or an update of the stats
InStats ==
    { j \in Jobs : pc[j] \in { "add_size", "add_bytes" } }
        \cup (IF rpc = "render" THEN { 0 } ELSE { })

\* C7 (as claimed): accesses to the stats are mutually exclusive, and once
\* all jobs have ended total_bytes is the sum of the chunk lengths counted
\* and total_size the sum of the advertised content lengths.
C7_ExclusiveAndNothingLost ==
    /\ Cardinality(InStats) <= 1
    /\ (\A j \in Jobs : pc[j] \in Terminal) =>
          /\ total_bytes = SumOver(counted, Jobs)
          /\ total_size =
                SumOver([ j \in Jobs |-> IF advertised[j] = None THEN 0
                                         ELSE advertised[j] ], Jobs)

\* C8: the Reporter is aborted, and dropped, only in states where every
\* Downloader has reached a terminal outcome.
C8_AbortAfterAllTerminal ==
    (aborted \/ rpc = "cancelled") => \A j \in Jobs : pc[j] \in Terminal

\* C8 witness: two Downloaders ended and the Reporter was dropped by the abort
C8_Witness ==
    /\ Len(args) = 2
    /\ aborted
    /\ rpc = "cancelled"

C10_NoStatusAfterCompletion ==
    \A i \in 1 .. Len(out) :
        out[i] = "completion" => \A k \in i + 1 .. Len(out) : out[k] # "status"

\* what the Reporter computes from the stats while it holds the lock
progress == Progress(total_bytes, total_size)
speed    == Speed(total_bytes, elapsed)

\* the content length job j's response advertised, an absent one counting 0
Adv0(j) == IF advertised[j] = None THEN 0 ELSE advertised[j]

AdvSum == SumOver([ j \in Jobs |-> Adv0(j) ], Jobs)

\* C11: given zero URL arguments the program only prints the usage and exits
\* with a non-zero status: the Reporter and the stats are never created, no
\* banner is printed, the counters stay 0 and no file exists.
C11_UsageOnly ==
    Len(args) = 0 =>
        /\ mpc \in { "start", "exited" }
        /\ rpc = "idle"
        /\ ~locked /\ total_bytes = 0 /\ total_size = 0
        /\ \A f \in DOMAIN files : files[f] = NoFile
        /\ Exited => (result = "usage" /\ out = << "usage" >>)

\* C11 witness: the program has exited on the usage error
C11_Witness ==
    /\ Len(args) = 0
    /\ Exited
    /\ result = "usage"

\* C12 (as claimed): whenever the Reporter computes a percent above 100, some
\* job's response advertised a content length smaller than the number of
\* body bytes it delivered.
C12_Over100OnlyIfUnderReported ==
    (rpc = "render" /\ total_size > 0 /\ progress.num > 100 * progress.den)
        => \E j \in Jobs : advertised[j] # None /\ advertised[j] < got[j]

\* C12 (amended): whenever the Reporter computes a percent above 100, some job
\* has counted more body bytes than the content length its response
\* advertised, an absent content length counting as 0, or the advertised
\* lengths sum beyond the counter's range (total_size has wrapped).
C12_Over100OnlyIfUnderOrUnreported ==
    (rpc = "render" /\ total_size > 0 /\ progress.num > 100 * progress.den)
        => \/ \E j \in Jobs : Adv0(j) < counted[j]
           \/ AdvSum >= Modulus

\* C12 witness: the Reporter computes a percent above 100 with two jobs
C12_Witness ==
    /\ rpc = "render"
    /\ Len(args) = 2
    /\ total_size > 0
    /\ progress.num > 100 * progress.den
    /\ AdvSum < Modulus

LastSegment(url) == Split(url)[Len(Split(url))]

\* C14 (as claimed): every destination name is the URL's last segment, or the
\* fallback name when that segment is empty; it is never empty.
C14_NameIsSegmentOrFallback ==
    \A j \in Jobs : pc[j] # "idle" =>
        /\ file_path(j) = IF LastSegment(args[j]) = << >> THEN DefaultName
                          ELSE LastSegment(args[j])
        /\ file_path(j) # << >>

\* job j has executed line 64
PastAddSize(j) == pc[j] \notin { "idle", "send", "lock_size", "add_size" }

\* C15 (as claimed): total_size is the sum of the advertised content lengths
\* of the jobs past line 64, a job adds its length before it receives a chunk,
\* and a job without an answer or without a content length adds nothing.
C15_SizeIsSumOfAdvertised ==
    /\ total_size =
          SumOver([ j \in Jobs |-> IF PastAddSize(j) THEN Adv0(j) ELSE 0 ], Jobs)
    /\ \A j \in Jobs : got[j] > 0 => PastAddSize(j)

\* no other job writes job j's destination file
SoleWriter(j) == \A k \in Jobs : k # j => file_path(k) # file_path(j)

\* C16: total_bytes never exceeds the bytes the Downloaders have written, job
\* by job; a chunk whose write failed is not counted, the job has ended with
\* the filesystem error, and what it wrote before is still in the file.
C16_CountedAfterWritten ==
    /\ total_bytes <= SumOver(pos, Jobs)
    /\ \A j \in Jobs :
          /\ counted[j] <= pos[j]
          /\ (pc[j] \in Terminal /\ got[j] > pos[j]) =>
                /\ pc[j] = "err_io"
                /\ counted[j] < got[j]
                /\ files[file_path(j)] # NoFile
                /\ SoleWriter(j) => files[file_path(j)] = BodyBytes(j, 0, pos[j])

\* C16 witness: the write of a job's second chunk failed after its first
\* chunk was written and counted
C16_Witness ==
    \E j \in Jobs :
        /\ pc[j] = "err_io"
        /\ got[j] = 2
        /\ pos[j] = 1
        /\ counted[j] = 1
        /\ total_bytes >= 1

\* C17: a failed send ends the job at once with no file created and the stats
\* untouched; a failed file creation ends it before any chunk was received or
\* counted; an ended job takes no further step (no second request).
C17_EarlyFailureIsTerminal ==
    [][ \A j \in Jobs :
          /\ (pc[j] = "send" /\ pc'[j] # "send") =>
                /\ pc'[j] \in { "err_net", "lock_size" }
                /\ UNCHANGED << files, total_bytes, total_size, locked, got, counted >>
          /\ (pc[j] = "create" /\ pc'[j] = "err_io") =>
                /\ got[j] = 0 /\ counted[j] = 0
                /\ UNCHANGED << files, total_bytes, total_size, got, counted >>
          /\ pc[j] \in Terminal =>
                /\ pc'[j] = pc[j]
                /\ got'[j] = got[j] /\ counted'[j] = counted[j] ]_vars

\* C17 witness: one job's request failed, another's file creation failed after
\* its response had arrived
C17_Witness ==
    /\ Len(args) = 2
    /\ pc[1] = "err_net" /\ advertised[1] = None /\ got[1] = 0
    /\ pc[2] = "err_io" /\ advertised[2] # None /\ got[2] = 0
    /\ total_bytes = 0

\* main returned the failure of a Downloader from its join loop
JoinFailed == WaitEnded /\ result = "err" /\ ~aborted

\* C18: main awaits the handles in argument order: while it waits for job idx
\* all earlier jobs have succeeded, and the failure it returns is that of the
\* lowest-positioned failed job.
C18_DrainInOrder ==
    /\ mpc = "join" => \A k \in 1 .. idx - 1 : pc[k] = "ok"
    /\ JoinFailed =>
          /\ idx \in Jobs
          /\ pc[idx] \in Failed
          /\ \A k \in 1 .. idx - 1 : pc[k] = "ok"

\* C18 witness: main returned job 1's failure although job 2 had failed too,
\* or was still running
C18_Witness ==
    /\ JoinFailed
    /\ Len(args) = 2
    /\ idx = 1
    /\ pc[2] \in { "err_io", "write" }

\* C19: the lock is held exactly while some task is between its lock().await
\* and the drop of its guard (positions with no await in between), by one task
\* at a time; a sleeping, waiting or cancelled Reporter does not hold it.
C19_LockOnlyInsideUpdate ==
    /\ locked <=> InStats # { }
    /\ Cardinality(InStats) <= 1
    /\ rpc = "cancelled" => ~locked

\* C19 witness: the Reporter was cancelled after it had rendered; the lock is
\* free and the counters hold what the jobs counted
C19_Witness ==
    /\ rpc = "cancelled"
    /\ Shown("status")
    /\ ~locked
    /\ total_bytes > 0
    /\ total_bytes = SumOver(counted, Jobs)

\* C20 (as claimed): a run in which every request was answered and no stream
\* failed ends with success.
C20_AnsweredRunsSucceed ==
    (WaitEnded /\ \A j \in Jobs : pc[j] # "err_net") => result = "ok"

\* C20 (amended): under fair scheduling every run terminates, whatever the
\* Reporter and the contention on the lock do; once every Downloader has
\* returned success main aborts the Reporter, and it ends with success
\* unless clearing the display fails.
C20_RunTerminates ==
    /\ <>Exited
    /\ [](( Len(args) > 0 /\ \A j \in Jobs : pc[j] = "ok" )
            => <>( Exited /\ aborted /\ (result = "ok" <=> Shown("completion")) ))

\* C20 witness: a two-job run ended with success while the Reporter, which
\* had rendered, was waiting for the lock or sleeping
C20_Witness ==
    /\ Exited
    /\ result = "ok"
    /\ Len(args) = 2
    /\ got[1] > 0 /\ got[2] > 0
    /\ Shown("status")
    /\ rpc \in { "sleep", "cancelled" }

====
